---- MODULE Spec2Model ----
(***************************************************************************)
(* DiagnosticsFeed (diagterm/collectors.py): the incremental diagnostics   *)
(* feed over journalctl (preferred) and dmesg (fallback), together with    *)
(* the two log sources it reads and the terminal UI's diagnostics pane     *)
(* that consumes it (diagterm/app.py, _set_diagnostics), and the web API   *)
(* (diagterm/web.py): its diagnostics endpoint over the one-shot           *)
(* get_recent_diagnostics, and its command runner; the executor            *)
(* (diagterm/executor.py) and the command runner of the terminal UI.       *)
(*                                                                         *)
(* A log line is a record [src, id, text]: text is what the program sees   *)
(* and compares; src and id say which entry of which source the line       *)
(* is, and are read by the properties only, never by the program.          *)
(***************************************************************************)
EXTENDS Integers, Sequences, FiniteSets, TLC

\* ---------------------------------------------------------------- bounds
MaxLimit == 2      \* largest `limit` a feed is constructed with
MaxJournal == 2    \* journal entries (priority 0..4) emitted in a run
MaxKernel == 3     \* kernel messages emitted in a run
RingCap == 2       \* messages the kernel ring holds before it overwrites
MaxCmd == 2        \* characters of the cmd of a POST /api/run
MaxHandlers == 2   \* calls of _run_from_input in progress at a time

\* ------------------------------------------------------- program constants
NumCandidates == 6 \* the dmesg command lines of _poll_dmesg
NoCursor == -1     \* self._cursor is None
MaxQueryLimit == 2000  \* the greatest limit api_diagnostics passes on
SrcNumCandidates == 4  \* the dmesg command lines of src/diagterm

JournalMsgs == {"a", "b"}      \* texts of journal entries
KernelMsgs == {"w", "i"}       \* a warning-level and an info-level kernel text
NoLine == [fmt |-> "none", msg |-> "none"]   \* a tail marker that is None

VARIABLES
  jlog,          \* the journal: every matching entry emitted so far, in order
                 \* (no longer recorded once the feed has left the journal)
  klog,          \* the kernel log: every message emitted so far, in order
                 \* (recorded from when dmesg is what the feed reads)
  limit,         \* self.limit
  journalctl,    \* self._journalctl is not None
  dmesg,         \* self._dmesg is not None
  buffer,        \* self._buffer
  backend,       \* self._backend: "none" | "journal" | "dmesg"
  cursor,        \* self._cursor
  journal_tail,  \* self._journal_tail
  dmesg_tail,    \* self._dmesg_tail
  view,          \* the lines the diagnostics pane of the UI shows
  diag_initialized, \* DiagTermApp._diag_initialized
  last,          \* the latest poll: how its fetches ended (jr, kr), the
                 \* processes it started (calls), the branch it took (how),
                 \* what it returned (lines, reset), how much the source it
                 \* read had emitted (at); tick flips at every poll;
                 \* afterSpent: the poll before it ended in a Spent branch.
                 \* With how = "abandoned" or "snapshot" it describes the
                 \* interrupted poll or the snapshot() call that ended the run
  environ,       \* os.environ["DIAGTERM_WEB_ENABLE_RUNNER"] of the web server
  req,           \* the HTTP request (or direct call) being served
  resp,          \* what the handler answered, NoResponse before it has
  ran,           \* the command lines handed to run_shell_command, in order
  _busy,         \* DiagTermApp._busy
  cmd_in,        \* the value of the #cmd_input field
  handlers,      \* the calls of _run_from_input that have not returned: where
                 \* each one waits (pc) and the command it read (cmd)
  cmd_log        \* the newest line of #cmd_log (older lines are not kept)

\* the state of the web API (diagterm/web.py)
web == <<environ, req, resp, ran>>

\* the state of the command runner of the terminal UI (diagterm/app.py)
runner == <<_busy, cmd_in, handlers, cmd_log>>

vars == <<jlog, klog, limit, journalctl, dmesg, buffer, backend, cursor,
          journal_tail, dmesg_tail, view, diag_initialized, last, web,
          runner>>

\* --------------------------------------------------------------- helpers
Max(a, b) == IF a >= b THEN a ELSE b

\* s[-n:] for n >= 1
LastN(s, n) == SubSeq(s, Max(1, Len(s) - n + 1), Len(s))

\* s[i+1:]
After(s, i) == SubSeq(s, i + 1, Len(s))

\* the greatest index of s whose line has text t, 0 when there is none
\* (the backward scans of _poll_journalctl and _poll_dmesg)
LastIndexOf(s, t) ==
  LET hits == {i \in 1..Len(s) : s[i].text = t}
  IN IF hits = {} THEN 0 ELSE CHOOSE i \in hits : \A j \in hits : j <= i

\* deque(maxlen=limit).append(ln)
DequeAppend_NoEvict(buf, ln) == buf \o <<ln>>

DequeAppend_DropNewest(buf, ln) ==
  IF Len(buf) >= limit THEN buf ELSE buf \o <<ln>>

DequeAppend(buf, ln) ==
  IF Len(buf) >= limit THEN Tail(buf) \o <<ln>> ELSE buf \o <<ln>>

\* for ln in lines: self._buffer.append(ln)
RECURSIVE AppendAll(_, _)
AppendAll(buf, lines) ==
  IF lines = <<>> THEN buf
  ELSE AppendAll(DequeAppend(buf, Head(lines)), Tail(lines))

\* self._buffer[-1] if self._buffer else None
LastText_Oldest(buf) == IF buf = <<>> THEN NoLine ELSE buf[1].text

LastText(buf) == IF buf = <<>> THEN NoLine ELSE buf[Len(buf)].text

\* self.limit = max(1, int(limit))
ClampLimit(n) == Max(1, n)

\* ------------------------------------------------------ the two sources
JournalEntry(i) ==
  [src |-> "j", id |-> i, text |-> [fmt |-> "iso", msg |-> jlog[i]]]

JournalEntries(from, to) == [k \in 1..Max(0, to - from + 1) |-> JournalEntry(from + k - 1)]

EntryLine(e) == [kind |-> "entry", tok |-> NoCursor, ent |-> e]
SentinelLine == [kind |-> "noentries", tok |-> NoCursor, ent |-> NoLine]
CursorLine(t) == [kind |-> "cursor", tok |-> t, ent |-> NoLine]
BlankLine == [kind |-> "blank", tok |-> NoCursor, ent |-> NoLine]

\* What journalctl prints for the argv of _poll_journalctl: the entries after
\* the cursor (--after-cursor) or the last `limit` entries (-n limit), the
\* "-- No entries --" sentinel when there are none, a blank line, and then
\* the trailer of --show-cursor: none, "-- cursor:" with an empty token, or
\* the position of the last entry of the journal.
JournalctlOutput(cur, trailer) ==
  LET n == Len(jlog)
      shown == IF cur # NoCursor THEN JournalEntries(cur + 1, n)
               ELSE JournalEntries(Max(1, n - limit + 1), n)
      body == IF shown = <<>> THEN <<SentinelLine>>
              ELSE [k \in 1..Len(shown) |-> EntryLine(shown[k])]
  IN body \o <<BlankLine>>
          \o (CASE trailer = "token" -> <<CursorLine(n)>>
                 [] trailer = "empty" -> <<CursorLine(NoCursor)>>
                 [] OTHER -> <<>>)

\* the flags of the k-th dmesg candidate
HasLevel(k) == k \in {1, 2, 3, 4}
HasCtime(k) == k \in {1, 3, 5}

\* the i-th message of kernel log kl as the k-th candidate prints it
KernelEntry(i, k, kl) ==
  [src |-> "k", id |-> i,
   text |-> [fmt |-> IF HasCtime(k) THEN "ctime" ELSE "raw", msg |-> kl[i]]]

\* the ids of the messages of kernel log kl still in the ring
RingIds(kl) == Max(1, Len(kl) - RingCap + 1)..Len(kl)

RECURSIVE SeqOfIds(_, _, _)
SeqOfIds(ids, k, kl) ==
  IF ids = {} THEN <<>>
  ELSE LET m == CHOOSE i \in ids : \A j \in ids : i <= j
       IN <<KernelEntry(m, k, kl)>> \o SeqOfIds(ids \ {m}, k, kl)

\* What the k-th dmesg candidate prints when the kernel log is kl: the ring,
\* oldest first, only the err/warn messages under --level=err,warn,
\* time-stamped per --ctime.
DmesgOutput(k, kl) ==
  LET ids == {i \in RingIds(kl) : (~HasLevel(k)) \/ kl[i] = "w"}
      es == SeqOfIds(ids, k, kl)
  IN [j \in 1..Len(es) |-> EntryLine(es[j])]

\* ------------------------------------------------------- DiagnosticsFeed
\* snapshot(): list(self._buffer)
snapshot == buffer

\* _extract_cursor: the token of the last "-- cursor:" line, None when there
\* is no such line or its token is empty
_extract_cursor_Never(raw_lines) == NoCursor

_extract_cursor(raw_lines) ==
  LET hits == {i \in 1..Len(raw_lines) : raw_lines[i].kind = "cursor"}
  IN IF hits = {} THEN NoCursor
     ELSE raw_lines[CHOOSE i \in hits : \A j \in hits : j <= i].tok

\* _filter_journal_lines: drops blank lines, the sentinel and cursor lines
_filter_journal_lines_KeepsAll(raw_lines) ==
  [i \in 1..Len(raw_lines) |->
     IF raw_lines[i].kind = "entry" THEN raw_lines[i].ent
     ELSE [src |-> "j", id |-> 0,
           text |-> [fmt |-> raw_lines[i].kind, msg |-> "none"]]]

RECURSIVE _filter_journal_lines(_)
_filter_journal_lines(raw_lines) ==
  IF raw_lines = <<>> THEN <<>>
  ELSE LET ln == Head(raw_lines)
           rest == _filter_journal_lines(Tail(raw_lines))
       IN IF ln.kind = "entry" THEN <<ln.ent>> \o rest ELSE rest

\* [ln.rstrip() for ln in out.splitlines() if ln.strip()]
RECURSIVE NonBlankLines(_)
NonBlankLines(raw_lines) ==
  IF raw_lines = <<>> THEN <<>>
  ELSE LET ln == Head(raw_lines)
           rest == NonBlankLines(Tail(raw_lines))
       IN IF ln.kind = "blank" THEN rest ELSE <<ln.ent>> \o rest

\* self._buffer.clear(); for ln in lines[-self.limit:]: self._buffer.append(ln)
Refill(lines) == AppendAll(<<>>, LastN(lines, limit))

\* the processes one run of the candidate loop starts: kr is the first
\* candidate that succeeds, 0 when every candidate fails
DmesgCalls_NoBreak(kr) == [i \in 1..NumCandidates |-> "dmesg"]

DmesgCalls(kr) ==
  [i \in 1..(IF kr = 0 THEN NumCandidates ELSE kr) |-> "dmesg"]

\* _poll_dmesg(force_reset), the candidate loop ending as kr says, the kernel
\* log being kl
_poll_dmesg_KeepOnFail(force_reset, kr, kl) ==
  IF ~dmesg THEN
    [buffer |-> <<>>, dmesg_tail |-> NoLine, lines |-> <<>>, reset |-> TRUE,
     calls |-> <<>>, how |-> "missing"]
  ELSE IF kr = 0 THEN
    [buffer |-> buffer, dmesg_tail |-> NoLine, lines |-> <<>>, reset |-> TRUE,
     calls |-> DmesgCalls(kr), how |-> "failed"]
  ELSE
    LET all_lines == NonBlankLines(DmesgOutput(kr, kl))
        tail == LastN(all_lines, limit)
        last_idx == LastIndexOf(all_lines, dmesg_tail)
        new_lines == After(all_lines, last_idx)
        appended == AppendAll(buffer, new_lines)
    IN IF force_reset \/ dmesg_tail = NoLine THEN
         [buffer |-> Refill(all_lines), dmesg_tail |-> LastText(tail),
          lines |-> Refill(all_lines), reset |-> TRUE,
          calls |-> DmesgCalls(kr), how |-> "fill"]
       ELSE IF last_idx = 0 THEN
         [buffer |-> Refill(all_lines), dmesg_tail |-> LastText(tail),
          lines |-> Refill(all_lines), reset |-> TRUE,
          calls |-> DmesgCalls(kr), how |-> "synclost"]
       ELSE
         [buffer |-> appended, dmesg_tail |-> LastText(appended),
          lines |-> new_lines, reset |-> FALSE,
          calls |-> DmesgCalls(kr), how |-> "tailmatch"]

_poll_dmesg_LastCandidate(force_reset, kr, kl) ==
  IF ~dmesg THEN
    [buffer |-> <<>>, dmesg_tail |-> NoLine, lines |-> <<>>, reset |-> TRUE,
     calls |-> <<>>, how |-> "missing"]
  ELSE IF kr = 0 THEN
    [buffer |-> <<>>, dmesg_tail |-> NoLine, lines |-> <<>>, reset |-> TRUE,
     calls |-> DmesgCalls(kr), how |-> "failed"]
  ELSE
    LET all_lines == NonBlankLines(DmesgOutput(NumCandidates, kl))
        tail == LastN(all_lines, limit)
        last_idx == LastIndexOf(all_lines, dmesg_tail)
        new_lines == After(all_lines, last_idx)
        appended == AppendAll(buffer, new_lines)
    IN IF force_reset \/ dmesg_tail = NoLine THEN
         [buffer |-> Refill(all_lines), dmesg_tail |-> LastText(tail),
          lines |-> Refill(all_lines), reset |-> TRUE,
          calls |-> DmesgCalls(kr), how |-> "fill"]
       ELSE IF last_idx = 0 THEN
         [buffer |-> Refill(all_lines), dmesg_tail |-> LastText(tail),
          lines |-> Refill(all_lines), reset |-> TRUE,
          calls |-> DmesgCalls(kr), how |-> "synclost"]
       ELSE
         [buffer |-> appended, dmesg_tail |-> LastText(appended),
          lines |-> new_lines, reset |-> FALSE,
          calls |-> DmesgCalls(kr), how |-> "tailmatch"]

_poll_dmesg(force_reset, kr, kl) ==
  IF ~dmesg THEN
    [buffer |-> <<>>, dmesg_tail |-> NoLine, lines |-> <<>>, reset |-> TRUE,
     calls |-> <<>>, how |-> "missing"]
  ELSE IF kr = 0 THEN
    [buffer |-> <<>>, dmesg_tail |-> NoLine, lines |-> <<>>, reset |-> TRUE,
     calls |-> DmesgCalls(kr), how |-> "failed"]
  ELSE
    LET all_lines == NonBlankLines(DmesgOutput(kr, kl))
        tail == LastN(all_lines, limit)
        last_idx == LastIndexOf(all_lines, dmesg_tail)
        new_lines == After(all_lines, last_idx)
        appended == AppendAll(buffer, new_lines)
    IN IF force_reset \/ dmesg_tail = NoLine THEN
         [buffer |-> Refill(all_lines), dmesg_tail |-> LastText(tail),
          lines |-> Refill(all_lines), reset |-> TRUE,
          calls |-> DmesgCalls(kr), how |-> "fill"]
       ELSE IF last_idx = 0 THEN
         [buffer |-> Refill(all_lines), dmesg_tail |-> LastText(tail),
          lines |-> Refill(all_lines), reset |-> TRUE,
          calls |-> DmesgCalls(kr), how |-> "synclost"]
       ELSE
         [buffer |-> appended, dmesg_tail |-> LastText(appended),
          lines |-> new_lines, reset |-> FALSE,
          calls |-> DmesgCalls(kr), how |-> "tailmatch"]

\* poll(): the selection made when self._backend is None
SelectBackend_Repromote ==
  IF journalctl THEN "journal"
  ELSE IF backend # "none" THEN backend
  ELSE IF dmesg THEN "dmesg"
  ELSE "none"

SelectBackend_DmesgFirst ==
  IF backend # "none" THEN backend
  ELSE IF dmesg THEN "dmesg"
  ELSE IF journalctl THEN "journal"
  ELSE "none"

SelectBackend ==
  IF backend # "none" THEN backend
  ELSE IF journalctl THEN "journal"
  ELSE IF dmesg THEN "dmesg"
  ELSE "none"

\* what _poll_journalctl and poll leave unchanged
Keep ==
  [buffer |-> buffer, backend |-> backend, cursor |-> cursor,
   journal_tail |-> journal_tail, dmesg_tail |-> dmesg_tail]

\* _poll_journalctl: the except branch (the fetch failed)
JournalFailed_KeepBuffer(kr, kl) ==
  IF dmesg THEN
    LET d == _poll_dmesg(TRUE, kr, kl)
    IN [buffer |-> d.buffer, backend |-> "dmesg", cursor |-> NoCursor,
        journal_tail |-> journal_tail, dmesg_tail |-> d.dmesg_tail,
        lines |-> d.lines, reset |-> d.reset,
        calls |-> <<"journalctl">> \o d.calls,
        how |-> IF d.how = "failed" THEN "failover_failed" ELSE "failover"]
  ELSE
    [buffer |-> buffer, backend |-> SelectBackend, cursor |-> NoCursor,
     journal_tail |-> journal_tail, dmesg_tail |-> dmesg_tail,
     lines |-> <<>>, reset |-> TRUE, calls |-> <<"journalctl">>,
     how |-> "failed"]

JournalFailed_KeepCursor(kr, kl) ==
  IF dmesg THEN
    LET d == _poll_dmesg(TRUE, kr, kl)
    IN [buffer |-> d.buffer, backend |-> "dmesg", cursor |-> cursor,
        journal_tail |-> journal_tail, dmesg_tail |-> d.dmesg_tail,
        lines |-> d.lines, reset |-> d.reset,
        calls |-> <<"journalctl">> \o d.calls,
        how |-> IF d.how = "failed" THEN "failover_failed" ELSE "failover"]
  ELSE
    [buffer |-> <<>>, backend |-> SelectBackend, cursor |-> NoCursor,
     journal_tail |-> journal_tail, dmesg_tail |-> dmesg_tail,
     lines |-> <<>>, reset |-> TRUE, calls |-> <<"journalctl">>,
     how |-> "failed"]

JournalFailed_Unselect(kr, kl) ==
  IF dmesg THEN
    LET d == _poll_dmesg(TRUE, kr, kl)
    IN [buffer |-> d.buffer, backend |-> "dmesg", cursor |-> NoCursor,
        journal_tail |-> journal_tail, dmesg_tail |-> d.dmesg_tail,
        lines |-> d.lines, reset |-> d.reset,
        calls |-> <<"journalctl">> \o d.calls,
        how |-> IF d.how = "failed" THEN "failover_failed" ELSE "failover"]
  ELSE
    [buffer |-> <<>>, backend |-> "none", cursor |-> NoCursor,
     journal_tail |-> journal_tail, dmesg_tail |-> dmesg_tail,
     lines |-> <<>>, reset |-> TRUE, calls |-> <<"journalctl">>,
     how |-> "failed"]

JournalFailed_Raise(kr, kl) ==
  Keep @@ [lines |-> <<>>, reset |-> FALSE, calls |-> <<"journalctl">>,
           how |-> "raised"]

JournalFailed_RetryJournal(kr, kl) ==
  IF dmesg THEN
    LET d == _poll_dmesg(TRUE, kr, kl)
    IN [buffer |-> d.buffer, backend |-> "dmesg", cursor |-> NoCursor,
        journal_tail |-> journal_tail, dmesg_tail |-> d.dmesg_tail,
        lines |-> d.lines, reset |-> d.reset,
        calls |-> <<"journalctl">> \o d.calls \o <<"journalctl">>,
        how |-> IF d.how = "failed" THEN "failover_failed" ELSE "failover"]
  ELSE
    [buffer |-> <<>>, backend |-> SelectBackend, cursor |-> NoCursor,
     journal_tail |-> journal_tail, dmesg_tail |-> dmesg_tail,
     lines |-> <<>>, reset |-> TRUE, calls |-> <<"journalctl">>,
     how |-> "failed"]

JournalFailed(kr, kl) ==
  IF dmesg THEN
    LET d == _poll_dmesg(TRUE, kr, kl)
    IN [buffer |-> d.buffer, backend |-> "dmesg", cursor |-> NoCursor,
        journal_tail |-> journal_tail, dmesg_tail |-> d.dmesg_tail,
        lines |-> d.lines, reset |-> d.reset,
        calls |-> <<"journalctl">> \o d.calls,
        how |-> IF d.how = "failed" THEN "failover_failed" ELSE "failover"]
  ELSE
    [buffer |-> <<>>, backend |-> SelectBackend, cursor |-> NoCursor,
     journal_tail |-> journal_tail, dmesg_tail |-> dmesg_tail,
     lines |-> <<>>, reset |-> TRUE, calls |-> <<"journalctl">>,
     how |-> "failed"]

\* _poll_journalctl: after a fetch that succeeded with output raw_lines
JournalFetched_DropCursor(raw_lines) ==
  LET reset_required == (cursor = NoCursor) /\ Len(buffer) = 0
      found == _extract_cursor(raw_lines)
      cursor1 == found
      lines == _filter_journal_lines(raw_lines)
      full ==
        [buffer |-> Refill(lines), backend |-> SelectBackend, cursor |-> cursor1,
         journal_tail |-> LastText(Refill(lines)), dmesg_tail |-> dmesg_tail,
         lines |-> Refill(lines), reset |-> TRUE, calls |-> <<"journalctl">>,
         how |-> "fill"]
      last_idx == LastIndexOf(lines, journal_tail)
      new_lines == After(lines, last_idx)
  IN IF reset_required THEN full
     ELSE IF cursor1 # NoCursor THEN
       [buffer |-> AppendAll(buffer, lines), backend |-> SelectBackend,
        cursor |-> cursor1,
        journal_tail |-> IF lines # <<>> THEN LastText(AppendAll(buffer, lines))
                         ELSE journal_tail,
        dmesg_tail |-> dmesg_tail, lines |-> lines, reset |-> FALSE,
        calls |-> <<"journalctl">>, how |-> "cursor"]
     ELSE IF journal_tail = NoLine THEN full
     ELSE IF last_idx = 0 THEN [full EXCEPT !.how = "synclost"]
     ELSE
       [buffer |-> AppendAll(buffer, new_lines), backend |-> SelectBackend,
        cursor |-> cursor1,
        journal_tail |-> LastText(AppendAll(buffer, new_lines)),
        dmesg_tail |-> dmesg_tail, lines |-> new_lines, reset |-> FALSE,
        calls |-> <<"journalctl">>, how |-> "tailmatch"]

JournalFetched_AlwaysReset(raw_lines) ==
  LET reset_required == (cursor = NoCursor) /\ Len(buffer) = 0
      found == _extract_cursor(raw_lines)
      cursor1 == IF found # NoCursor THEN found ELSE cursor
      lines == _filter_journal_lines(raw_lines)
      full ==
        [buffer |-> Refill(lines), backend |-> SelectBackend, cursor |-> cursor1,
         journal_tail |-> LastText(Refill(lines)), dmesg_tail |-> dmesg_tail,
         lines |-> Refill(lines), reset |-> TRUE, calls |-> <<"journalctl">>,
         how |-> "fill"]
      last_idx == LastIndexOf(lines, journal_tail)
      new_lines == After(lines, last_idx)
  IN IF reset_required THEN full
     ELSE IF cursor1 # NoCursor THEN
       [buffer |-> AppendAll(buffer, lines), backend |-> SelectBackend,
        cursor |-> cursor1,
        journal_tail |-> IF lines # <<>> THEN LastText(AppendAll(buffer, lines))
                         ELSE journal_tail,
        dmesg_tail |-> dmesg_tail, lines |-> lines, reset |-> FALSE,
        calls |-> <<"journalctl">>, how |-> "cursor"]
     ELSE IF journal_tail # NoLine THEN full
     ELSE IF last_idx = 0 THEN [full EXCEPT !.how = "synclost"]
     ELSE
       [buffer |-> AppendAll(buffer, new_lines), backend |-> SelectBackend,
        cursor |-> cursor1,
        journal_tail |-> LastText(AppendAll(buffer, new_lines)),
        dmesg_tail |-> dmesg_tail, lines |-> new_lines, reset |-> FALSE,
        calls |-> <<"journalctl">>, how |-> "tailmatch"]

JournalFetched_NoInitialFill(raw_lines) ==
  LET reset_required == FALSE
      found == _extract_cursor(raw_lines)
      cursor1 == IF found # NoCursor THEN found ELSE cursor
      lines == _filter_journal_lines(raw_lines)
      full ==
        [buffer |-> Refill(lines), backend |-> SelectBackend, cursor |-> cursor1,
         journal_tail |-> LastText(Refill(lines)), dmesg_tail |-> dmesg_tail,
         lines |-> Refill(lines), reset |-> TRUE, calls |-> <<"journalctl">>,
         how |-> "fill"]
      last_idx == LastIndexOf(lines, journal_tail)
      new_lines == After(lines, last_idx)
  IN IF reset_required THEN full
     ELSE IF cursor1 # NoCursor THEN
       [buffer |-> AppendAll(buffer, lines), backend |-> SelectBackend,
        cursor |-> cursor1,
        journal_tail |-> IF lines # <<>> THEN LastText(AppendAll(buffer, lines))
                         ELSE journal_tail,
        dmesg_tail |-> dmesg_tail, lines |-> lines, reset |-> FALSE,
        calls |-> <<"journalctl">>, how |-> "cursor"]
     ELSE IF journal_tail = NoLine THEN full
     ELSE IF last_idx = 0 THEN [full EXCEPT !.how = "synclost"]
     ELSE
       [buffer |-> AppendAll(buffer, new_lines), backend |-> SelectBackend,
        cursor |-> cursor1,
        journal_tail |-> LastText(AppendAll(buffer, new_lines)),
        dmesg_tail |-> dmesg_tail, lines |-> new_lines, reset |-> FALSE,
        calls |-> <<"journalctl">>, how |-> "tailmatch"]

JournalFetched(raw_lines) ==
  LET reset_required == (cursor = NoCursor) /\ Len(buffer) = 0
      found == _extract_cursor(raw_lines)
      cursor1 == IF found # NoCursor THEN found ELSE cursor
      lines == _filter_journal_lines(raw_lines)
      full ==
        [buffer |-> Refill(lines), backend |-> SelectBackend, cursor |-> cursor1,
         journal_tail |-> LastText(Refill(lines)), dmesg_tail |-> dmesg_tail,
         lines |-> Refill(lines), reset |-> TRUE, calls |-> <<"journalctl">>,
         how |-> "fill"]
      last_idx == LastIndexOf(lines, journal_tail)
      new_lines == After(lines, last_idx)
  IN IF reset_required THEN full
     ELSE IF cursor1 # NoCursor THEN
       [buffer |-> AppendAll(buffer, lines), backend |-> SelectBackend,
        cursor |-> cursor1,
        journal_tail |-> IF lines # <<>> THEN LastText(AppendAll(buffer, lines))
                         ELSE journal_tail,
        dmesg_tail |-> dmesg_tail, lines |-> lines, reset |-> FALSE,
        calls |-> <<"journalctl">>, how |-> "cursor"]
     ELSE IF journal_tail = NoLine THEN full
     ELSE IF last_idx = 0 THEN [full EXCEPT !.how = "synclost"]
     ELSE
       [buffer |-> AppendAll(buffer, new_lines), backend |-> SelectBackend,
        cursor |-> cursor1,
        journal_tail |-> LastText(AppendAll(buffer, new_lines)),
        dmesg_tail |-> dmesg_tail, lines |-> new_lines, reset |-> FALSE,
        calls |-> <<"journalctl">>, how |-> "tailmatch"]

\* _poll_journalctl, the fetch ending as jr says: "fail" (non-zero exit,
\* timeout, tool gone), or the trailer kind of a successful output
_poll_journalctl(jr, kr, kl) ==
  IF jr = "fail" THEN JournalFailed(kr, kl)
  ELSE JournalFetched(JournalctlOutput(cursor, jr))

\* poll(): neither tool was found; return ([], True)
Unavailable_NoReset ==
  Keep @@ [lines |-> <<>>, reset |-> FALSE, calls |-> <<>>,
           how |-> "unavailable"]

Unavailable ==
  Keep @@ [lines |-> <<>>, reset |-> TRUE, calls |-> <<>>,
           how |-> "unavailable"]

\* poll()
poll_Reselects(jr, kr, kl) ==
  LET sel == SelectBackend
  IN IF backend = "none" /\ sel = "none" THEN Unavailable
     ELSE IF sel = "journal" /\ journalctl THEN
       _poll_journalctl(jr, kr, kl)
     ELSE IF sel = "dmesg" /\ dmesg THEN
       LET d == _poll_dmesg(FALSE, kr, kl)
       IN [buffer |-> d.buffer, backend |-> "none", cursor |-> cursor,
           journal_tail |-> journal_tail, dmesg_tail |-> d.dmesg_tail,
           lines |-> d.lines, reset |-> d.reset, calls |-> d.calls,
           how |-> d.how]
     ELSE
       [buffer |-> <<>>, backend |-> "none", cursor |-> NoCursor,
        journal_tail |-> journal_tail, dmesg_tail |-> NoLine,
        lines |-> <<>>, reset |-> TRUE, calls |-> <<>>, how |-> "gone"]

poll(jr, kr, kl) ==
  LET sel == SelectBackend
  IN IF backend = "none" /\ sel = "none" THEN Unavailable
     ELSE IF sel = "journal" /\ journalctl THEN
       _poll_journalctl(jr, kr, kl)
     ELSE IF sel = "dmesg" /\ dmesg THEN
       LET d == _poll_dmesg(FALSE, kr, kl)
       IN [buffer |-> d.buffer, backend |-> sel, cursor |-> cursor,
           journal_tail |-> journal_tail, dmesg_tail |-> d.dmesg_tail,
           lines |-> d.lines, reset |-> d.reset, calls |-> d.calls,
           how |-> d.how]
     ELSE
       [buffer |-> <<>>, backend |-> "none", cursor |-> NoCursor,
        journal_tail |-> journal_tail, dmesg_tail |-> NoLine,
        lines |-> <<>>, reset |-> TRUE, calls |-> <<>>, how |-> "gone"]

\* ------------------------------------------------ the diagnostics pane
\* DiagTermApp._set_diagnostics, after poll() returned (lines, reset) and
\* left the buffer as snap
_set_diagnostics(lines, reset, snap) ==
  IF reset \/ ~diag_initialized THEN (IF reset THEN lines ELSE snap)
  ELSE view \o lines

\* ------------------------------------------------------------ behaviour
\* How a journalctl run can end: it fails, or it prints its entries with no
\* trailer, a trailer with an empty token, or a trailer with a token. A run
\* that was given --after-cursor and shows entries reports their cursor.
JournalOutcomes ==
  IF cursor # NoCursor /\ cursor < Len(jlog) THEN {"fail", "token"}
  ELSE {"fail", "none", "empty", "token"}

\* How the dmesg candidate loop can end: the first candidate that succeeds,
\* or 0 when all fail
DmesgOutcomes == 0..NumCandidates

\* the branches of poll() that end with no backend able to deliver: neither
\* tool found, the journal fetch failed with no dmesg to turn to, every
\* dmesg candidate failed
Spent == {"unavailable", "failed", "failover_failed", "missing", "gone"}

\* #cmd_log holds no line
NoLogLine == [line |-> "", rc |-> 0]

\* the command runner as DiagTermApp.__init__ and compose() leave it
RunnerIdle ==
  /\ _busy = FALSE
  /\ cmd_in = <<>>
  /\ handlers = <<>>
  /\ cmd_log = NoLogLine

\* the variable DIAGTERM_WEB_ENABLE_RUNNER is not in the environment
Unset == "<unset>"

\* no request is being served (the terminal UI runs no web server)
NoRequest ==
  [path |-> "none", pkg |-> "none", limit |-> 0, cmd |-> <<>>, timeout_s |-> 0]

\* no shell process was started
NoProcess == [spawn |-> "none", takes |-> 0, rc |-> 0, out |-> "", err |-> ""]

\* cmd, timeout_s, proc: what run_shell_command was called with and what the
\* shell process did; killed: the process was sent a kill
NoResponse ==
  [status |-> 0, lines |-> <<>>, limit |-> 0, jr |-> "unused", kr |-> -1,
   runner_enabled |-> FALSE, cmd |-> <<>>, returncode |-> 0, timeout_s |-> 0,
   stdout |-> "", stderr |-> "", killed |-> FALSE, proc |-> NoProcess]

NoPoll ==
  [polled |-> FALSE, tick |-> FALSE, jr |-> "unused", kr |-> -1,
   lines |-> <<>>, reset |-> FALSE, calls |-> <<>>, how |-> "never", at |-> 0,
   afterSpent |-> FALSE]

Init ==
  /\ jlog = <<>>
  /\ klog = <<>>
  /\ limit \in {ClampLimit(0), ClampLimit(MaxLimit)}
  /\ journalctl \in BOOLEAN
  /\ dmesg \in BOOLEAN
  /\ buffer = <<>>
  /\ backend = "none"
  /\ cursor = NoCursor
  /\ journal_tail = NoLine
  /\ dmesg_tail = NoLine
  /\ view = <<>>
  /\ diag_initialized = FALSE
  /\ last = NoPoll
  /\ environ = Unset
  /\ req = NoRequest
  /\ resp = NoResponse
  /\ ran = <<>>
  /\ RunnerIdle

\* the journal gains an entry (it is read only while the feed can still
\* select it)
EmitJournal ==
  /\ journalctl
  /\ backend # "dmesg"
  /\ Len(jlog) < MaxJournal
  /\ \E m \in JournalMsgs : jlog' = Append(jlog, m)
  /\ UNCHANGED <<klog, limit, journalctl, dmesg, buffer, backend, cursor,
                 journal_tail, dmesg_tail, view, diag_initialized, last,
                 web, runner>>

\* the kernel logs a message, overwriting the oldest one of a full ring
\* (recorded while dmesg is what the feed reads or will first select)
EmitKernel ==
  /\ dmesg
  /\ backend = "dmesg" \/ ~journalctl
  /\ Len(klog) < MaxKernel
  /\ \E m \in KernelMsgs : klog' = Append(klog, m)
  /\ UNCHANGED <<jlog, limit, journalctl, dmesg, buffer, backend, cursor,
                 journal_tail, dmesg_tail, view, diag_initialized, last,
                 web, runner>>

\* the outcomes of the fetches one poll() makes: jr for the journalctl run
\* ("unused" when poll() starts none), kr for the dmesg candidate loop (-1
\* when poll() does not enter it)
FetchOutcomes ==
  LET sel == SelectBackend
      js == IF sel = "journal" /\ journalctl THEN JournalOutcomes ELSE {"unused"}
  IN {o \in js \X ({-1} \cup DmesgOutcomes) :
        (o[2] # -1) <=> \/ o[1] = "fail" /\ dmesg
                        \/ sel = "dmesg" /\ dmesg}

\* what the ring can hold when the feed first turns to it: messages are
\* numbered from the oldest one still in the ring
KernelLogs == UNION {[1..n -> KernelMsgs] : n \in 0..RingCap}

\* the kernel log a poll can meet: the recorded one, or any at all when the
\* poll turns from the journal to dmesg for the first time
KernelLogsMet(jr) ==
  IF SelectBackend = "journal" /\ journalctl /\ jr = "fail" /\ dmesg
  THEN KernelLogs ELSE {klog}

\* one timer tick of the UI: _set_diagnostics calls poll() and shows the result
Poll ==
  \E o \in FetchOutcomes : \E kl \in KernelLogsMet(o[1]) :
    LET r == poll(o[1], o[2], kl)
    IN /\ buffer' = r.buffer
       /\ backend' = r.backend
       /\ cursor' = r.cursor
       /\ journal_tail' = r.journal_tail
       /\ dmesg_tail' = r.dmesg_tail
       /\ view' = _set_diagnostics(r.lines, r.reset, r.buffer)
       /\ diag_initialized' = TRUE
       /\ last' = [polled |-> TRUE, tick |-> ~last.tick,
                   jr |-> o[1], kr |-> o[2],
                   lines |-> r.lines, reset |-> r.reset, calls |-> r.calls,
                   how |-> r.how, afterSpent |-> last.how \in Spent,
                   at |-> IF r.backend = "journal" THEN Len(jlog)
                          ELSE IF r.backend = "dmesg" THEN Len(kl) ELSE 0]
       /\ jlog' = IF r.backend = "dmesg" THEN <<>> ELSE jlog
       /\ klog' = kl
       /\ UNCHANGED <<limit, journalctl, dmesg, web, runner>>

Next == EmitJournal \/ EmitKernel \/ Poll

Spec == Init /\ [][Next]_vars

\* ------------------------------------------- interrupted polls, snapshot()
\* poll() left by an exception that `except Exception` does not catch
\* (KeyboardInterrupt, SystemExit) while a fetch is in flight: what the
\* statements before that fetch have done. jr = "interrupted": it hit the
\* journalctl run; otherwise it hit the run of dmesg candidate k, the ones
\* before it having failed (after a failed journalctl run when jr = "fail").
_poll_interrupted_ClearsBuffer(jr, k) ==
  [Keep EXCEPT !.buffer = <<>>, !.backend = SelectBackend]
    @@ [calls |-> <<"journalctl">>]

_poll_interrupted(jr, k) ==
  IF jr = "interrupted" THEN
    [Keep EXCEPT !.backend = SelectBackend] @@ [calls |-> <<"journalctl">>]
  ELSE IF jr = "fail" THEN
    [Keep EXCEPT !.backend = "dmesg", !.cursor = NoCursor]
      @@ [calls |-> <<"journalctl">> \o DmesgCalls(k)]
  ELSE
    [Keep EXCEPT !.backend = SelectBackend] @@ [calls |-> DmesgCalls(k)]

\* where an interruption can hit the poll made in the current state: the
\* journalctl run, or the first or the last dmesg candidate
Interruptions ==
  LET sel == SelectBackend
  IN IF sel = "journal" /\ journalctl THEN
       {<<"interrupted", -1>>}
         \cup (IF dmesg THEN {"fail"} \X {1, NumCandidates} ELSE {})
     ELSE IF sel = "dmesg" /\ dmesg THEN {"unused"} \X {1, NumCandidates}
     ELSE {}

\* snapshot() as its caller gets it: list(self._buffer) is a list of its
\* own, which shares nothing with the deque
snapshot_Shared == [list |-> snapshot, own |-> FALSE]

snapshot_call == [list |-> snapshot, own |-> TRUE]

\* what a caller does to the list it got: clear(), pop(0), reverse()
ListMutations == {"clear", "pop", "reverse"}

Mutated(list, m) ==
  CASE m = "clear" -> <<>>
    [] m = "pop" -> IF list = <<>> THEN <<>> ELSE Tail(list)
    [] OTHER -> [i \in 1..Len(list) |-> list[Len(list) + 1 - i]]

\* the feed is in use: no poll was interrupted (the exception ends the UI,
\* which has no handler around poll()), and the run is followed up to the
\* first snapshot() call made from outside poll()
Running == last.how \notin {"abandoned", "snapshot"}

\* a timer tick whose poll() is interrupted during a fetch
PollAbandoned ==
  /\ Running
  /\ \E o \in Interruptions :
       LET r == _poll_interrupted(o[1], o[2])
       IN /\ buffer' = r.buffer
          /\ backend' = r.backend
          /\ cursor' = r.cursor
          /\ journal_tail' = r.journal_tail
          /\ dmesg_tail' = r.dmesg_tail
          /\ last' = [NoPoll EXCEPT !.jr = o[1], !.calls = r.calls,
                                    !.how = "abandoned"]
  /\ UNCHANGED <<jlog, klog, limit, journalctl, dmesg, view, diag_initialized,
                 web, runner>>

\* some caller takes snapshot() and then changes the list it got
Snapshot ==
  /\ Running
  /\ \E m \in ListMutations :
       LET r == snapshot_call
       IN /\ buffer' = IF r.own THEN buffer ELSE Mutated(buffer, m)
          /\ last' = [NoPoll EXCEPT !.lines = r.list, !.how = "snapshot"]
  /\ UNCHANGED <<jlog, klog, limit, journalctl, dmesg, backend, cursor,
                 journal_tail, dmesg_tail, view, diag_initialized, web,
                 runner>>

NextCallers ==
  \/ Running /\ EmitJournal
  \/ Running /\ EmitKernel
  \/ Running /\ Poll
  \/ PollAbandoned
  \/ Snapshot

SpecCallers == Init /\ [][NextCallers]_vars

\* -------------------------------------------------------------- web API
Min(a, b) == IF a <= b THEN a ELSE b

\* the dmesg command lines of get_recent_diagnostics in src/diagterm, as
\* candidates of _poll_dmesg: level and ctime, level, ctime, plain
SrcCandidates == <<1, 2, 5, 6>>

\* a line of output as the program holds it: the entry, or the text of a
\* line that is not one
LineOf(ln) ==
  IF ln.kind = "entry" THEN ln.ent
  ELSE [src |-> "j", id |-> 0, text |-> [fmt |-> ln.kind, msg |-> "none"]]

\* What journalctl prints for the argv of get_recent_diagnostics in
\* src/diagterm (-n n, no --show-cursor): the last n entries, or the
\* "-- No entries --" sentinel when there are none
JournalctlOutput_n(n) ==
  LET shown == JournalEntries(Max(1, Len(jlog) - n + 1), Len(jlog))
  IN IF shown = <<>> THEN <<SentinelLine>>
     ELSE [k \in 1..Len(shown) |-> EntryLine(shown[k])]

\* [ln.rstrip() for ln in out.splitlines() if ln.strip()], every kind of
\* line kept as text
StrippedLines(raw_lines) ==
  LET kept == SelectSeq(raw_lines, LAMBDA ln : ln.kind # "blank")
  IN [i \in 1..Len(kept) |-> LineOf(kept[i])]

\* get_recent_diagnostics(limit) of src/diagterm: the journalctl run ending
\* as jr says, the candidate loop as kr says, the kernel log being kl
get_recent_diagnostics_src(l, jr, kr, kl) ==
  LET lim == Max(1, l)
  IN IF journalctl /\ jr # "fail" THEN
       LastN(StrippedLines(JournalctlOutput_n(lim)), lim)
     ELSE IF ~dmesg THEN <<>>
     ELSE IF kr = 0 THEN <<>>
     ELSE LastN(StrippedLines(DmesgOutput(SrcCandidates[kr], kl)), lim)

\* the feed is as DiagnosticsFeed(limit=l) constructs it
FreshFeed(l) ==
  /\ limit = ClampLimit(l)
  /\ buffer = <<>>
  /\ backend = "none"
  /\ cursor = NoCursor
  /\ journal_tail = NoLine
  /\ dmesg_tail = NoLine

\* get_recent_diagnostics(limit) of docs/src/diagterm, on the feed it has
\* constructed: lines, _reset = feed.poll(); lines[-max(1, int(limit)):]
get_recent_diagnostics_NoFallback(l, jr, kr, kl) ==
  IF jr = "fail" THEN <<>> ELSE LastN(poll(jr, kr, kl).lines, Max(1, l))

get_recent_diagnostics(l, jr, kr, kl) ==
  LastN(poll(jr, kr, kl).lines, Max(1, l))

\* min(max(int(limit), 1), 2000)
QueryLimit(q) == Min(Max(q, 1), MaxQueryLimit)

\* os.environ.get("DIAGTERM_WEB_ENABLE_RUNNER", default)
environ_get(default) == IF environ = Unset THEN default ELSE environ

\* str.strip(): leading and trailing whitespace removed
Whitespace == {" ", "\t"}

RECURSIVE lstrip(_)
lstrip(s) ==
  IF s # <<>> /\ Head(s) \in Whitespace THEN lstrip(Tail(s)) ELSE s

RECURSIVE rstrip(_)
rstrip(s) ==
  IF s # <<>> /\ s[Len(s)] \in Whitespace
  THEN rstrip(SubSeq(s, 1, Len(s) - 1)) ELSE s

strip(s) == rstrip(lstrip(s))

\* ------------------------------------------------------------ executor
\* what the shell process of a command does: whether it can be started
\* (create_subprocess_shell raises otherwise), how long it takes, the code
\* it exits with, the bytes it writes to its two pipes
ReturnCodes == {0, 2}
Durations == {1, 10, 200}
Streams == {"", "o", "\\xff"}

ExecOutcomes ==
  [spawn : {"ok"}, takes : Durations, rc : ReturnCodes,
   out : Streams, err : Streams]
    \cup {[spawn |-> "raise", takes |-> 0, rc |-> 0, out |-> "", err |-> ""]}

\* (b or b"").decode(errors="replace")
decode(b) == IF b = "\\xff" THEN "U+FFFD" ELSE b

\* ExecResult(cmd, returncode, stdout, stderr); raised: no result, the call
\* ended with an exception; killed: proc.kill() was called
ExecResult(cmd, returncode, stdout, stderr) ==
  [raised |-> FALSE, killed |-> FALSE, cmd |-> cmd, returncode |-> returncode,
   stdout |-> stdout, stderr |-> stderr]

NoResult ==
  [raised |-> TRUE, killed |-> FALSE, cmd |-> <<>>, returncode |-> 0,
   stdout |-> "", stderr |-> ""]

\* run_shell_command(cmd, timeout_s), the shell process doing as o says
run_shell_command_NoTimeout(cmd, timeout_s, o) ==
  IF o.spawn = "raise" THEN NoResult
  ELSE ExecResult(cmd, o.rc, decode(o.out), decode(o.err))

run_shell_command(cmd, timeout_s, o) ==
  IF o.spawn = "raise" THEN NoResult
  ELSE IF o.takes > timeout_s THEN
    [ExecResult(cmd, 124, "", "Timed out") EXCEPT !.killed = TRUE]
  ELSE ExecResult(cmd, o.rc, decode(o.out), decode(o.err))

\* api_run(req), the shell process of the command, if one is started, doing
\* as o says; an exception of run_shell_command leaves the handler (500)
api_run_EnvTruthy(o) ==
  LET cmd == strip(req.cmd)
      timeout_s == IF req.timeout_s <= 0 THEN 120 ELSE req.timeout_s
      res == run_shell_command(cmd, timeout_s, o)
  IN IF environ_get("0") \in {"0", ""} THEN
       [NoResponse EXCEPT !.status = 403]
     ELSE IF cmd = <<>> THEN
       [NoResponse EXCEPT !.status = 400]
     ELSE
       [NoResponse EXCEPT !.status = IF res.raised THEN 500 ELSE 200,
                          !.cmd = cmd, !.timeout_s = timeout_s,
                          !.returncode = res.returncode,
                          !.stdout = res.stdout, !.stderr = res.stderr,
                          !.killed = res.killed, !.proc = o]

api_run(o) ==
  LET cmd == strip(req.cmd)
      timeout_s == IF req.timeout_s <= 0 THEN 120 ELSE req.timeout_s
      res == run_shell_command(cmd, timeout_s, o)
  IN IF environ_get("0") # "1" THEN
       [NoResponse EXCEPT !.status = 403]
     ELSE IF cmd = <<>> THEN
       [NoResponse EXCEPT !.status = 400]
     ELSE
       [NoResponse EXCEPT !.status = IF res.raised THEN 500 ELSE 200,
                          !.cmd = cmd, !.timeout_s = timeout_s,
                          !.returncode = res.returncode,
                          !.stdout = res.stdout, !.stderr = res.stderr,
                          !.killed = res.killed, !.proc = o]

\* api_capabilities()
api_capabilities ==
  [NoResponse EXCEPT !.status = 200,
                     !.runner_enabled = (environ_get("0") = "1")]

\* ------------------------------------------------- web API: behaviour
\* what the variable can be set to
EnvValues == {Unset, "", "0", "1", "1 ", "01", "true"}

Chars == Whitespace \cup {"x"}

\* the cmd of a request: any text of up to MaxCmd characters
Cmds == UNION {[1..n -> Chars] : n \in 0..MaxCmd}

\* the limit of a request: any integer, of which these are tried
Limits == {-1, 0, 1, MaxLimit, MaxLimit + 1, MaxQueryLimit, MaxQueryLimit + 1}

Packages == {"docs", "src"}

Requests ==
  LET R(path, pkgs, limits, cmds, timeouts) ==
        {[path |-> path, pkg |-> k, limit |-> l, cmd |-> c, timeout_s |-> t] :
           k \in pkgs, l \in limits, c \in cmds, t \in timeouts}
  IN R("diagnostics", Packages, Limits, {<<>>}, {0})
       \cup R("call", Packages, Limits, {<<>>}, {0})
       \cup R("run", Packages, {0}, Cmds, {0, 5})
       \cup R("capabilities", {"docs"}, {0}, {<<>>}, {0})

\* the limit get_recent_diagnostics is called with for the request
ArgLimit == IF req.path = "diagnostics" THEN QueryLimit(req.limit) ELSE req.limit

\* A request has reached the web server of a host: the journal holds any
\* entries, either tool may be missing. For a request that leads to
\* get_recent_diagnostics of docs/src/diagterm, the feed is the one that
\* call constructs first.
InitWeb ==
  /\ req \in Requests
  /\ resp = NoResponse
  /\ ran = <<>>
  /\ RunnerIdle
  /\ environ \in (IF req.path \in {"run", "capabilities"} THEN EnvValues
                  ELSE {Unset})
  /\ journalctl \in (IF req.path \in {"diagnostics", "call"} THEN BOOLEAN
                     ELSE {FALSE})
  /\ dmesg \in (IF req.path \in {"diagnostics", "call"} THEN BOOLEAN
                ELSE {FALSE})
  /\ jlog \in (IF journalctl
               THEN UNION {[1..n -> JournalMsgs] : n \in 0..MaxJournal}
               ELSE {<<>>})
  /\ klog = <<>>
  /\ FreshFeed(IF req.path \in {"diagnostics", "call"} THEN ArgLimit ELSE 0)
  /\ view = <<>>
  /\ diag_initialized = FALSE
  /\ last = NoPoll

\* the outcomes of the fetches of get_recent_diagnostics in src/diagterm
SrcFetchOutcomes ==
  {o \in (IF journalctl THEN {"fail", "none"} ELSE {"unused"})
           \X ({-1} \cup (0..SrcNumCandidates)) :
     (o[2] # -1) <=> (o[1] \in {"fail", "unused"} /\ dmesg)}

Pending(path) == req.path = path /\ resp = NoResponse

Answer(pkg, l, o, kl) ==
  [NoResponse EXCEPT
     !.status = 200, !.limit = l, !.jr = o[1], !.kr = o[2],
     !.lines = IF pkg = "docs" THEN get_recent_diagnostics(l, o[1], o[2], kl)
               ELSE get_recent_diagnostics_src(l, o[1], o[2], kl)]

\* GET /api/diagnostics?limit=q
ApiDiagnostics ==
  /\ Pending("diagnostics")
  /\ LET l == QueryLimit(req.limit)
     IN /\ req.pkg = "docs" => FreshFeed(l)
        /\ \E o \in (IF req.pkg = "docs" THEN FetchOutcomes ELSE SrcFetchOutcomes) :
             \E kl \in (IF o[2] > 0 THEN KernelLogs ELSE {<<>>}) :
               /\ resp' = Answer(req.pkg, l, o, kl)
               /\ klog' = kl
  /\ UNCHANGED <<jlog, limit, journalctl, dmesg, buffer, backend, cursor,
                 journal_tail, dmesg_tail, view, diag_initialized, last,
                 environ, req, ran, runner>>

\* get_recent_diagnostics(limit) called with any limit
GetRecentDiagnostics ==
  /\ Pending("call")
  /\ req.pkg = "docs" => FreshFeed(req.limit)
  /\ \E o \in (IF req.pkg = "docs" THEN FetchOutcomes ELSE SrcFetchOutcomes) :
       \E kl \in (IF o[2] > 0 THEN KernelLogs ELSE {<<>>}) :
         /\ resp' = Answer(req.pkg, req.limit, o, kl)
         /\ klog' = kl
  /\ UNCHANGED <<jlog, limit, journalctl, dmesg, buffer, backend, cursor,
                 journal_tail, dmesg_tail, view, diag_initialized, last,
                 environ, req, ran, runner>>

\* POST /api/run
ApiRun ==
  /\ Pending("run")
  /\ \E o \in ExecOutcomes :
       LET r == api_run(o)
       IN /\ resp' = r
          /\ ran' = IF r.cmd # <<>> THEN Append(ran, r.cmd) ELSE ran
  /\ UNCHANGED <<jlog, klog, limit, journalctl, dmesg, buffer, backend, cursor,
                 journal_tail, dmesg_tail, view, diag_initialized, last,
                 environ, req, runner>>

\* GET /api/capabilities
ApiCapabilities ==
  /\ Pending("capabilities")
  /\ resp' = api_capabilities
  /\ UNCHANGED <<jlog, klog, limit, journalctl, dmesg, buffer, backend, cursor,
                 journal_tail, dmesg_tail, view, diag_initialized, last,
                 environ, req, ran, runner>>

NextWeb == ApiDiagnostics \/ GetRecentDiagnostics \/ ApiRun \/ ApiCapabilities

SpecWeb == InitWeb /\ [][NextWeb]_vars

\* ------------------------------------------- terminal UI: command runner
\* run_shell_command(cmd, timeout_s=120.0)
RunTimeout == 120

\* what the user has typed into #cmd_input
Typed == {<<>>, <<" ">>, <<"x">>, <<"y", " ">>}

\* s without its i-th element
Without(s, i) == SubSeq(s, 1, i - 1) \o SubSeq(s, i + 1, Len(s))

\* _run_from_input up to its first await (lines 227-234): it returns when
\* _busy is set or the field holds no command, and otherwise waits for the
\* ConfirmRun dialog it opens
_run_from_input_NoGuard ==
  LET cmd == strip(cmd_in)
  IN IF cmd = <<>> THEN handlers
     ELSE Append(handlers, [pc |-> "confirm", cmd |-> cmd])

_run_from_input ==
  LET cmd == strip(cmd_in)
  IN IF _busy THEN handlers
     ELSE IF cmd = <<>> THEN handlers
     ELSE Append(handlers, [pc |-> "confirm", cmd |-> cmd])

\* _run_from_input when its dialog is dismissed with ok (lines 235-247): it
\* returns, or sets _busy, empties the field, writes to the log and waits for
\* run_shell_command
_run_confirmed(h, ok) ==
  IF ~ok THEN
    [busy |-> _busy, cmd_in |-> cmd_in, cmd_log |-> cmd_log,
     handlers |-> Without(handlers, h)]
  ELSE
    [busy |-> TRUE, cmd_in |-> <<>>,
     cmd_log |-> [line |-> "Running...", rc |-> 0],
     handlers |-> [handlers EXCEPT ![h].pc = "exec"]]

\* _run_from_input when run_shell_command has ended with res (lines
\* 248-260): the exception or the result is logged and _busy is reset
_run_finished_BusyOnError(h, res) ==
  IF res.raised THEN
    [busy |-> _busy, cmd_log |-> [line |-> "Executor error", rc |-> 0],
     handlers |-> Without(handlers, h)]
  ELSE
    [busy |-> FALSE, cmd_log |-> [line |-> "Exit code", rc |-> res.returncode],
     handlers |-> Without(handlers, h)]

_run_finished(h, res) ==
  IF res.raised THEN
    [busy |-> FALSE, cmd_log |-> [line |-> "Executor error", rc |-> 0],
     handlers |-> Without(handlers, h)]
  ELSE
    [busy |-> FALSE, cmd_log |-> [line |-> "Exit code", rc |-> res.returncode],
     handlers |-> Without(handlers, h)]

\* the calls of _run_from_input that wait at pc
Waiting(pc) == {h \in 1..Len(handlers) : handlers[h].pc = pc}

\* the feed and the web API take no part in the command runner
RunnerOnly ==
  UNCHANGED <<jlog, klog, limit, journalctl, dmesg, buffer, backend, cursor,
              journal_tail, dmesg_tail, view, diag_initialized, last, web>>

InitRunner == Init /\ journalctl /\ dmesg /\ limit = ClampLimit(0)

\* the user edits #cmd_input
TypeCommand ==
  /\ \E text \in Typed : cmd_in' = text
  /\ UNCHANGED <<_busy, handlers, cmd_log>>
  /\ RunnerOnly

\* Button.Pressed on #run_btn: _run_pressed
RunPressed ==
  /\ Len(handlers) < MaxHandlers
  /\ handlers' = _run_from_input
  /\ UNCHANGED <<_busy, cmd_in, cmd_log>>
  /\ RunnerOnly

\* Input.Submitted on #cmd_input: _run_submitted
RunSubmitted ==
  /\ Len(handlers) < MaxHandlers
  /\ handlers' = _run_from_input
  /\ UNCHANGED <<_busy, cmd_in, cmd_log>>
  /\ RunnerOnly

\* a ConfirmRun dialog is dismissed: push_screen_wait returns to its caller
ConfirmDismissed ==
  /\ \E h \in Waiting("confirm") : \E ok \in BOOLEAN :
       LET r == _run_confirmed(h, ok)
       IN /\ _busy' = r.busy
          /\ cmd_in' = r.cmd_in
          /\ cmd_log' = r.cmd_log
          /\ handlers' = r.handlers
  /\ RunnerOnly

\* run_shell_command ends: the await of line 247 returns or raises
ExecutorDone ==
  /\ \E h \in Waiting("exec") : \E o \in ExecOutcomes :
       LET r == _run_finished(h, run_shell_command(handlers[h].cmd,
                                                   RunTimeout, o))
       IN /\ _busy' = r.busy
          /\ cmd_log' = r.cmd_log
          /\ handlers' = r.handlers
  /\ UNCHANGED cmd_in
  /\ RunnerOnly

\* ctrl+l: action_clear_log
ClearLog ==
  /\ cmd_log' = NoLogLine
  /\ UNCHANGED <<_busy, cmd_in, handlers>>
  /\ RunnerOnly

NextRunner ==
  \/ TypeCommand
  \/ RunPressed
  \/ RunSubmitted
  \/ ConfirmDismissed
  \/ ExecutorDone
  \/ ClearLog

SpecRunner == InitRunner /\ [][NextRunner]_vars

\* run_shell_command is bounded by its timeout, so the await of line 247
\* always ends and the event loop resumes the handler
SpecRunnerLive == SpecRunner /\ WF_vars(ExecutorDone)

\* ------------------------------------------------------------ properties
\* a step that is one poll()
PollStep == last'.tick # last.tick

\* the entries among raw output lines, in order
EntriesOf(raw_lines) ==
  LET es == SelectSeq(raw_lines, LAMBDA ln : ln.kind = "entry")
  IN [i \in 1..Len(es) |-> es[i].ent]

\* the log of the source behind backend b
SourceLog(b) == IF b = "journal" THEN jlog ELSE IF b = "dmesg" THEN klog ELSE <<>>

\* no two entries of log carry the same text
TextsDistinct(log) ==
  \A i \in 1..Len(log) : \A j \in 1..Len(log) : (i # j) => log[i] # log[j]

\* C1: after any sequence of polls, whatever path each took, the snapshot
\* holds at most `limit` lines.
C1_BufferBound == Len(snapshot) <= limit

\* a poll appended to a full buffer, so that the oldest line was evicted
C1_Witness ==
  /\ last.polled /\ ~last.reset /\ last.how = "cursor" /\ last.lines # <<>>
  /\ Len(buffer) = limit /\ Len(view) > limit

\* C2: every line returned by a poll with reset_required = False is an entry
\* its source emitted after the last entry the buffer held before that poll,
\* so no entry is delivered twice.
C2_NoDuplicateDelivery ==
  [][(PollStep /\ ~last'.reset /\ buffer # <<>>) =>
       \A i \in 1..Len(last'.lines) :
         /\ last'.lines[i].src = buffer[Len(buffer)].src
         /\ last'.lines[i].id > buffer[Len(buffer)].id]_vars

\* C3: a non-reset poll that follows a poll on the same backend returns, in
\* order, exactly the entries the source emitted since that poll (for dmesg:
\* those of them the candidate prints). Stated for sources whose entries all
\* differ in text, where the tail marker names one entry only, and for dmesg
\* polls served by the candidate that served the poll before.
C3_LosslessRun ==
  [][(PollStep /\ last.polled /\ ~last'.reset /\ backend' = backend
        /\ last'.kr = last.kr /\ TextsDistinct(SourceLog(backend))) =>
       LET log == SourceLog(backend)
           new == {i \in (last.at + 1)..Len(log) :
                     backend = "dmesg" =>
                       (~HasLevel(last'.kr)) \/ log[i] = "w"}
           got == last'.lines
       IN /\ {got[i].id : i \in 1..Len(got)} = new
          /\ Len(got) = Cardinality(new)
          /\ \A i \in 1..Len(got) : got[i].src = (IF backend = "journal" THEN "j" ELSE "k")
          /\ \A i \in 1..(Len(got) - 1) : got[i].id < got[i + 1].id]_vars

\* C4: whenever poll() returns reset_required = True, the lines it returns
\* are the whole snapshot as it is right after that poll.
C4_ResetComplete == (last.polled /\ last.reset) => last.lines = snapshot

\* a reset that replaced earlier content: the tail marker was not found
C4_Witness ==
  last.polled /\ last.reset /\ last.how = "synclost" /\ last.lines # <<>>

\* C5: a view that is replaced by the lines of every reset poll and extended
\* by the lines of every other poll ends, after every poll, with the
\* snapshot: its last `limit` lines are the buffer (oldest evicted first).
C5_ViewTracksSnapshot == last.polled => LastN(view, limit) = snapshot

\* a tail-matched poll appended lines and the view outgrew the buffer
C5_Witness ==
  /\ last.polled /\ ~last.reset /\ last.how = "tailmatch" /\ last.lines # <<>>
  /\ Len(view) > limit /\ Len(buffer) = limit

\* C6: a poll made on the backend of the poll before it, with nothing emitted
\* in between and both fetches ending the same successful way, returns
\* ([], False).
C6_QuiescentPollsReturnNothing ==
  [][(PollStep /\ last.polled /\ backend' = backend /\ backend # "none"
        /\ last.at = Len(SourceLog(backend))
        /\ last'.jr = last.jr /\ last'.kr = last.kr
        /\ last'.jr # "fail" /\ last'.kr # 0) =>
       (last'.lines = <<>> /\ ~last'.reset)]_vars

\* C7: a journal fetch whose output is some lines and a trailer with token T:
\* on the first poll (no cursor held) the poll returns (those lines, True),
\* on a poll made with a cursor held it returns (those lines, False); either
\* way the cursor becomes T.
C7_ScenarioA ==
  [][(PollStep /\ last'.jr = "token") =>
       LET out == JournalctlOutput(cursor, "token")
           T == out[Len(out)].tok
       IN /\ (~last.polled) =>
               (last'.reset /\ last'.lines = EntriesOf(out) /\ cursor' = T)
          /\ (cursor # NoCursor) =>
               (~last'.reset /\ last'.lines = EntriesOf(out) /\ cursor' = T)]_vars

\* a poll made with a cursor returned new lines and took the new token
C7_Witness ==
  /\ last.polled /\ last.jr = "token" /\ last.how = "cursor"
  /\ Len(last.lines) = 2 /\ cursor = Len(jlog) /\ ~last.reset

\* C8: when the journal fetch fails and dmesg was found, that same poll
\* selects dmesg, runs it, clears the cursor and returns reset_required = True
\* with the buffer holding the last `limit` lines the dmesg candidate printed
\* (nothing when every candidate failed), none of them a journal line.
C8_Failover ==
  [][(PollStep /\ last'.jr = "fail" /\ dmesg) =>
       LET window == EntriesOf(IF last'.kr > 0 THEN DmesgOutput(last'.kr, klog')
                               ELSE <<>>)
       IN /\ backend' = "dmesg"
          /\ cursor' = NoCursor
          /\ last'.reset
          /\ Len(last'.calls) >= 2 /\ last'.calls[2] = "dmesg"
          /\ buffer' = LastN(window, limit)
          /\ last'.lines = buffer'
          /\ \A i \in 1..Len(buffer') : buffer'[i].src = "k"]_vars

\* the journal failed and the buffer was rebuilt from a ring that held more
\* than `limit` lines
C8_Witness ==
  /\ last.polled /\ last.how = "failover" /\ last.jr = "fail" /\ last.kr > 0
  /\ backend = "dmesg" /\ Len(buffer) = limit /\ last.at > limit
  /\ journal_tail # NoLine

\* C9: with neither tool found, every poll returns ([], True), starts no
\* process and leaves the buffer empty.
C9_NeitherTool ==
  (last.polled /\ ~journalctl /\ ~dmesg) =>
    (last.lines = <<>> /\ last.reset /\ last.calls = <<>> /\ buffer = <<>>)

\* the second poll of a feed that found neither tool
C9_Witness ==
  last.polled /\ ~journalctl /\ ~dmesg /\ last.afterSpent

\* C10 as stated: once a poll ended with no usable backend left, every later
\* poll returns ([], True) and starts no process.
C10_SpentIsFinal ==
  last.afterSpent => (last.lines = <<>> /\ last.reset /\ last.calls = <<>>)

\* C10 as amended: with neither tool found the selection stays unset and
\* every poll returns ([], True) and starts no process; a poll whose last
\* usable backend failed returns ([], True) with the buffer emptied and
\* keeps that backend selected, and the poll after it runs its tool again.
C10_SpentIsRetried ==
  /\ (last.polled /\ ~journalctl /\ ~dmesg) =>
       (backend = "none" /\ last.lines = <<>> /\ last.reset
          /\ last.calls = <<>>)
  /\ (last.how \in {"failed", "failover_failed"}) =>
       (backend = (IF dmesg THEN "dmesg" ELSE "journal")
          /\ last.lines = <<>> /\ last.reset /\ buffer = <<>>)
  /\ (last.afterSpent /\ (journalctl \/ dmesg)) =>
       (last.calls # <<>>
          /\ last.calls[1] = (IF dmesg THEN "dmesg" ELSE "journalctl"))

\* the poll after a failed one ran the tool again and refilled the buffer
C10_Witness ==
  last.afterSpent /\ last.how = "fill" /\ last.lines # <<>> /\ last.reset

\* C11: once the selection is dmesg (made on first use or by a journal
\* failure), every later step keeps it, and no later poll starts journalctl,
\* however its fetches end.
C11_StickyDemotion ==
  [][(backend = "dmesg") =>
       /\ backend' = "dmesg"
       /\ PollStep =>
            \A i \in 1..Len(last'.calls) : last'.calls[i] # "journalctl"]_vars

\* journalctl was found, the feed left it for dmesg, every dmesg candidate
\* then failed, and the poll after that still ran dmesg only
C11_Witness ==
  /\ backend = "dmesg" /\ journalctl /\ last.afterSpent
  /\ last.jr = "unused" /\ last.kr > 0 /\ last.calls # <<>>

\* C12: a poll made with no selection yet starts with journalctl whenever
\* journalctl was found (dmesg found or not) and selects the journal unless
\* that fetch fails; it selects dmesg without trying the journal only when
\* journalctl was not found; a tool that was not found is never run and the
\* poll still returns a result.
C12_PriorityOrder ==
  [][(PollStep /\ backend = "none") =>
       /\ journalctl =>
            /\ last'.calls # <<>> /\ last'.calls[1] = "journalctl"
            /\ (last'.jr # "fail") => backend' = "journal"
       /\ (~journalctl /\ dmesg) =>
            /\ backend' = "dmesg" /\ last'.calls # <<>>
            /\ last'.how \in {"fill", "failed"}
       /\ (~journalctl) =>
            \A i \in 1..Len(last'.calls) : last'.calls[i] # "journalctl"
       /\ (~dmesg) =>
            \A i \in 1..Len(last'.calls) : last'.calls[i] # "dmesg"
       /\ (~journalctl /\ ~dmesg) => last'.how = "unavailable"]_vars

\* both tools were found and the first poll chose the journal and filled
\* the buffer from it
C12_Witness ==
  /\ last.polled /\ journalctl /\ dmesg /\ backend = "journal"
  /\ last.how = "fill" /\ last.calls = <<"journalctl">> /\ last.lines # <<>>

\* a poll step that fetches a window while a tail marker is recorded for the
\* buffered lines: a dmesg poll, or a journal poll made with no cursor held
\* (journalctl -n limit)
TailDiffStep ==
  /\ PollStep
  /\ buffer # <<>>
  /\ \/ backend = "dmesg" /\ dmesg_tail # NoLine /\ last'.kr > 0
     \/ /\ backend = "journal" /\ journal_tail # NoLine /\ cursor = NoCursor
        /\ last'.jr \in {"none", "empty", "token"}

\* the marker M such a step starts with, the window W it fetches, and the
\* marker it leaves
Marker == IF backend = "dmesg" THEN dmesg_tail ELSE journal_tail

Window ==
  IF backend = "dmesg" THEN EntriesOf(DmesgOutput(last'.kr, klog))
  ELSE EntriesOf(JournalctlOutput(cursor, last'.jr))

MarkerAfter == IF backend = "dmesg" THEN dmesg_tail' ELSE journal_tail'

\* C13: when a tail marker M is recorded and the fetched window W holds a
\* line equal to M, i being the greatest such index, the poll returns
\* (W[i+1:], False), appends exactly those lines to the buffer and sets the
\* marker to the last buffered line.
C13_TailMatch ==
  [][(TailDiffStep /\ LastIndexOf(Window, Marker) > 0) =>
       LET new == After(Window, LastIndexOf(Window, Marker))
       IN /\ last'.lines = new /\ ~last'.reset
          /\ buffer' = AppendAll(buffer, new)
          /\ MarkerAfter = LastText(buffer')]_vars

\* C14: when a tail marker M is recorded and no line of the fetched window W
\* equals M, the poll returns (W[-limit:], True), the buffer becomes exactly
\* that slice and the marker is rebuilt from its last line.
C14_SyncLoss ==
  [][(TailDiffStep /\ LastIndexOf(Window, Marker) = 0) =>
       LET slice == LastN(Window, limit)
       IN /\ last'.lines = slice /\ last'.reset
          /\ buffer' = slice
          /\ MarkerAfter = LastText(slice)]_vars

\* the return statements of poll(), _poll_journalctl and _poll_dmesg
Returns ==
  {"unavailable", "gone", "fill", "cursor", "tailmatch", "synclost", "failed",
   "failover", "failover_failed", "missing"}

\* C15: however the fetches of a poll end on either backend (tool not
\* found, a failed or timed-out run, empty output), poll() ends in one of its
\* return statements with a pair (lines, reset_required): a list of log
\* lines and a Boolean.
C15_NeverRaises ==
  last.polled =>
    /\ last.how \in Returns
    /\ last.reset \in BOOLEAN
    /\ \A i \in 1..Len(last.lines) : last.lines[i].src \in {"j", "k"}

\* the journal fetch failed and then every dmesg candidate failed as well
C15_Witness ==
  last.polled /\ last.jr = "fail" /\ last.kr = 0 /\ last.how = "failover_failed"

\* C16: a poll in which every backend fails or is absent (the journal fetch
\* fails, or is not made, and dmesg was not found or all its candidates
\* fail) returns ([], True) and leaves the buffer empty.
C16_AllBackendsDown ==
  (last.polled /\ last.jr \in {"fail", "unused"} /\ (~dmesg \/ last.kr = 0)) =>
    (last.lines = <<>> /\ last.reset /\ buffer = <<>>)

\* every dmesg candidate failed on a feed that had lines buffered: the pane
\* showed lines before and the marker is gone
C16_Witness ==
  /\ last.polled /\ last.jr = "unused" /\ last.kr = 0 /\ dmesg
  /\ klog # <<>> /\ dmesg_tail = NoLine /\ view = <<>> /\ last.at > 0

\* C17 as stated: a poll starts at most one external process.
C17_AtMostOneProcess == Len(last.calls) <= 1

\* C17 as amended: a poll starts at most one journalctl process, first of
\* all, and nothing else when that run succeeds; when it polls dmesg it
\* runs the candidates in turn up to the first that succeeds, so at most
\* NumCandidates dmesg processes and 1 + NumCandidates processes in all.
C17_ProcessesPerPoll ==
  LET nd == Cardinality({i \in 1..Len(last.calls) : last.calls[i] = "dmesg"})
  IN /\ Len(last.calls) <= 1 + NumCandidates
     /\ \A i \in 2..Len(last.calls) : last.calls[i] = "dmesg"
     /\ nd = (IF last.kr = -1 THEN 0
              ELSE IF last.kr = 0 THEN NumCandidates ELSE last.kr)
     /\ (last.jr \in {"none", "empty", "token"}) => last.calls = <<"journalctl">>

\* a poll that started journalctl and then every dmesg candidate
C17_Witness == last.polled /\ Len(last.calls) = 1 + NumCandidates

\* how often the tool that is run changes along the calls of a poll
Switches(calls) ==
  Cardinality({i \in 1..(Len(calls) - 1) : calls[i] # calls[i + 1]})

C19_AbandonedLeavesState ==
  [][(backend # "none"
        /\ \/ Running /\ last'.how = "abandoned"
           \/ Running' /\ PollStep /\ (last'.jr = "fail" \/ last'.kr = 0)) =>
       UNCHANGED <<buffer, cursor, journal_tail, dmesg_tail, backend>>]_vars

\* C19 as amended: a poll interrupted during a fetch leaves the buffer and
\* the tail markers (and the pane) as they were; the selection is the one
\* the poll made before the fetch, and when the interruption hits the dmesg
\* run of a failover the selection is already dmesg and the cursor cleared.
\* A fetch that fails or times out is handled by the poll, which returns
\* reset_required = True with the buffer replaced as a whole: emptied, or
\* rebuilt from dmesg output only.
C19_InterruptedFrame ==
  [][/\ (Running /\ last'.how = "abandoned") =>
          /\ UNCHANGED <<buffer, journal_tail, dmesg_tail, view>>
          /\ backend' = (IF last'.jr = "fail" THEN "dmesg" ELSE SelectBackend)
          /\ cursor' = (IF last'.jr = "fail" THEN NoCursor ELSE cursor)
     /\ (Running' /\ PollStep /\ (last'.jr = "fail" \/ last'.kr = 0)) =>
          /\ last'.reset /\ last'.lines = buffer'
          /\ \A i \in 1..Len(buffer') : buffer'[i].src = "k"]_vars

\* the journal fetch failed and the interruption hit the dmesg run after it:
\* the selection is dmesg, the cursor is gone, the buffer still holds the
\* journal lines
C19_Witness ==
  /\ last.how = "abandoned" /\ last.jr = "fail" /\ backend = "dmesg"
  /\ cursor = NoCursor /\ buffer # <<>> /\ journal_tail # NoLine
  /\ dmesg_tail = NoLine /\ Len(last.calls) = 1 + NumCandidates

\* C20: snapshot() returns the buffered lines, oldest first, starts no
\* process and leaves buffer, cursor, tail markers and selection unchanged,
\* whatever its caller then does to the returned list; and a step in which
\* the feed is not called at all leaves them unchanged too.
C20_SnapshotFrame ==
  [][/\ (Running /\ last'.how = "snapshot") =>
          /\ last'.lines = buffer /\ last'.calls = <<>>
          /\ UNCHANGED <<buffer, cursor, journal_tail, dmesg_tail, backend>>
     /\ (last' = last) =>
          UNCHANGED <<buffer, cursor, journal_tail, dmesg_tail, backend>>]_vars

\* snapshot() was called on a full buffer of several lines fed from the
\* journal by cursor
C20_Witness ==
  /\ last.how = "snapshot" /\ Len(last.lines) = limit /\ limit > 1
  /\ buffer = last.lines /\ cursor # NoCursor /\ backend = "journal"

\* C21: a journal poll made with a cursor held whose fetch succeeds with no
\* "-- cursor:" trailer, or one with an empty token, keeps the cursor and is
\* not a reset; a held cursor is cleared only by a poll whose journal fetch
\* fails.
C21_CursorKept ==
  [][PollStep =>
       /\ (cursor # NoCursor /\ last'.jr \in {"none", "empty"}) =>
            (cursor' = cursor /\ ~last'.reset)
       /\ (cursor # NoCursor /\ cursor' = NoCursor) => last'.jr = "fail"]_vars

\* a poll made with a cursor held got output with an empty-token trailer
C21_Witness ==
  /\ last.polled /\ last.jr = "empty" /\ cursor # NoCursor
  /\ last.how = "cursor" /\ buffer # <<>>

\* the lines of journalctl output that are not log entries
NotEntries == {"blank", "noentries", "cursor"}

\* C22: no line that poll() returns or keeps in the buffer is a blank line,
\* the "-- No entries --" sentinel or a "-- cursor:" line of journalctl
\* output: each is an entry of its source.
C22_OnlyEntries ==
  /\ \A i \in 1..Len(last.lines) :
       last.lines[i].text.fmt \notin NotEntries /\ last.lines[i].id >= 1
  /\ \A i \in 1..Len(buffer) :
       buffer[i].text.fmt \notin NotEntries /\ buffer[i].id >= 1

\* a journal poll whose output was the sentinel, a blank line and a cursor
\* trailer returned nothing and stored nothing
C22_Witness ==
  /\ last.polled /\ backend = "journal" /\ last.jr = "token" /\ jlog = <<>>
  /\ last.lines = <<>> /\ buffer = <<>> /\ cursor # NoCursor

\* C23: _poll_dmesg runs its candidates in the listed order up to the first
\* that succeeds (kr): it starts exactly kr processes, takes its lines from
\* the output of candidate kr, and ends as failed exactly when every one of
\* the NumCandidates candidates failed.
C23_FirstCandidateWins ==
  [][(PollStep /\ last'.kr >= 0) =>
       LET k == last'.kr
           nd == Cardinality({i \in 1..Len(last'.calls) :
                                last'.calls[i] = "dmesg"})
           out == EntriesOf(DmesgOutput(k, klog'))
       IN /\ (k > 0) =>
               /\ nd = k
               /\ last'.how \notin {"failed", "failover_failed"}
               /\ \A i \in 1..Len(last'.lines) :
                    \E j \in 1..Len(out) : out[j] = last'.lines[i]
               /\ last'.reset => last'.lines = LastN(out, limit)
          /\ (k = 0) =>
               (nd = NumCandidates /\ last'.how \in {"failed", "failover_failed"})
          /\ (last'.how \in {"failed", "failover_failed"}) => k = 0]_vars

\* the first four candidates failed and the fifth, which prints every level
\* with --ctime, delivered an info-level line
C23_Witness ==
  /\ last.polled /\ last.kr = 5 /\ Len(last.calls) = 5 /\ last.lines # <<>>
  /\ last.lines[Len(last.lines)].text = [fmt |-> "ctime", msg |-> "i"]

\* C24: a journal poll made with no cursor held and a non-empty buffer, whose
\* output yields no cursor either, matches the fetched entries W against the
\* journal tail marker: with i the last index of the marker in W it returns
\* (W[i+1:], False) and appends those lines, and when the marker is not in W
\* it returns (W[-limit:], True) and the buffer becomes that slice. A poll
\* of an unchanged journal so returns ([], False).
C24_DegradedJournal ==
  [][(PollStep /\ backend = "journal" /\ cursor = NoCursor /\ buffer # <<>>
        /\ last'.jr \in {"none", "empty"}) =>
       LET W == EntriesOf(JournalctlOutput(cursor, last'.jr))
           i == LastIndexOf(W, journal_tail)
       IN /\ (i > 0) =>
               /\ last'.lines = After(W, i) /\ ~last'.reset
               /\ buffer' = AppendAll(buffer, After(W, i))
          /\ (i = 0) =>
               /\ last'.lines = LastN(W, limit) /\ last'.reset
               /\ buffer' = LastN(W, limit)
          /\ (last.polled /\ last.at = Len(jlog)) =>
               (last'.lines = <<>> /\ ~last'.reset)
          /\ cursor' = NoCursor]_vars

\* a journal that never reports a cursor delivered one new entry by tail
\* matching, into a buffer with room for it
C24_Witness ==
  /\ last.polled /\ backend = "journal" /\ cursor = NoCursor
  /\ last.jr = "none" /\ last.how = "tailmatch" /\ Len(last.lines) = 1
  /\ Len(buffer) = 2 /\ view = buffer

\* C25: the first poll of a feed returns reset_required = True, whichever
\* tools were found and however their runs end, and so does every poll made
\* with no backend selected and every poll that ends with no backend able
\* to deliver.
C25_FirstPollResets ==
  [][PollStep =>
       /\ (~last.polled) => last'.reset
       /\ (backend = "none") => last'.reset
       /\ (last'.how \in Spent) => (last'.reset /\ last'.lines = <<>>)]_vars

\* the first poll found a journal that reports a cursor and returned its
\* entries as a reset
C25_Witness ==
  /\ last.polled /\ last.tick /\ ~last.afterSpent /\ last.how = "fill"
  /\ last.jr = "token" /\ last.reset /\ last.lines # <<>>
  /\ cursor = Len(jlog) /\ view = last.lines

\* C28: a journal poll that starts with no cursor held fetches the last
\* `limit` entries, and whenever that output carries a cursor it returns
\* reset_required = True with the buffer replaced by the fetched entries,
\* whatever the buffer held before.
C28_NoCursorIsInitialFill ==
  [][(PollStep /\ SelectBackend = "journal" /\ cursor = NoCursor
        /\ last'.jr = "token") =>
       LET W == EntriesOf(JournalctlOutput(cursor, "token"))
       IN /\ last'.reset
          /\ buffer' = LastN(W, limit)
          /\ last'.lines = buffer']_vars

\* C29: after every poll, when the buffer is not empty, the tail marker of
\* the selected backend is the text of the last buffered line.
C29_MarkerIsLastLine ==
  (last.polled /\ buffer # <<>>) =>
    /\ (backend = "journal") => journal_tail = buffer[Len(buffer)].text
    /\ (backend = "dmesg") => dmesg_tail = buffer[Len(buffer)].text
    /\ backend # "none"

\* a cursor-mode poll appended to a buffer of two different lines
C29_Witness ==
  /\ last.polled /\ last.how = "cursor" /\ last.lines # <<>>
  /\ Len(buffer) = 2 /\ buffer[1].text # buffer[2].text
  /\ journal_tail = buffer[2].text

\* C30: once a backend is selected, the selection changes only in a poll
\* whose fetch on that backend failed; a poll whose fetch succeeds leaves
\* the selection as it was made, and no other step touches it.
C30_SelectionStable ==
  [][/\ (backend # "none" /\ backend' # backend) =>
          (PollStep /\ last'.jr = "fail")
     /\ (PollStep /\ last'.jr \in {"none", "empty", "token"}) =>
          backend' = "journal"
     /\ (PollStep /\ last'.jr = "unused" /\ last'.kr > 0) =>
          backend' = "dmesg"
     /\ (~PollStep) => backend' = backend]_vars

\* a dmesg poll that lost sync and rebuilt the buffer kept the selection
C30_Witness ==
  /\ last.polled /\ backend = "dmesg" /\ last.jr = "unused"
  /\ last.how = "synclost" /\ last.kr > 0 /\ ~journalctl

\* C26: get_recent_diagnostics(limit) returns at most max(1, limit) lines,
\* oldest first: the newest ones of the journal when journalctl is present
\* and its run succeeds, otherwise the newest ones the first working dmesg
\* candidate prints, and no line (never an exception) when neither delivers;
\* GET /api/diagnostics calls it with the requested limit brought into
\* 1..2000. (With an empty journal the function of docs/src/diagterm returns
\* no line and the one of src/diagterm the one line journalctl prints.)
C26_RecentDiagnostics ==
  (req.path \in {"diagnostics", "call"} /\ resp # NoResponse) =>
    LET L == Max(1, resp.limit)
        lines == resp.lines
        J == JournalEntries(1, Len(jlog))
        cand == IF req.pkg = "docs" THEN resp.kr ELSE SrcCandidates[resp.kr]
    IN /\ resp.status = 200
       /\ Len(lines) <= L
       /\ \A i, j \in 1..Len(lines) : i < j => lines[i].id < lines[j].id
       /\ IF journalctl /\ resp.jr # "fail" THEN
            /\ resp.kr = -1
            /\ jlog # <<>> => lines = LastN(J, L)
            /\ (jlog = <<>> /\ req.pkg = "docs") => lines = <<>>
            /\ (jlog = <<>> /\ req.pkg = "src") => lines = <<LineOf(SentinelLine)>>
          ELSE IF dmesg /\ resp.kr > 0 THEN
            lines = LastN(EntriesOf(DmesgOutput(cand, klog)), L)
          ELSE lines = <<>>
       /\ req.path = "diagnostics" =>
            /\ resp.limit \in 1..MaxQueryLimit
            /\ req.limit \in 1..MaxQueryLimit => resp.limit = req.limit
            /\ req.limit < 1 => resp.limit = 1
            /\ req.limit > MaxQueryLimit => resp.limit = MaxQueryLimit
       /\ req.path = "call" => resp.limit = req.limit

C26_Witness ==
  /\ req.path = "diagnostics"
  /\ req.limit < 1
  /\ resp.limit = 1
  /\ Len(jlog) >= 2
  /\ resp.jr # "fail"
  /\ resp.lines = <<JournalEntry(Len(jlog))>>

\* C27: POST /api/run hands a command to the shell only when
\* DIAGTERM_WEB_ENABLE_RUNNER is exactly "1": with any other value, or with
\* the variable unset, the answer is 403 whatever the request holds; with
\* "1" a cmd that is empty or all whitespace is answered 400; in both cases
\* nothing is run.
C27_RunnerDisabledByDefault ==
  LET blank == \A i \in 1..Len(req.cmd) : req.cmd[i] \in Whitespace
  IN /\ ran # <<>> => /\ environ = "1"
                      /\ req.path = "run"
                      /\ ~blank
                      /\ Len(ran) = 1
     /\ (req.path = "run" /\ resp # NoResponse) =>
          /\ environ # "1" => (resp.status = 403 /\ ran = <<>>)
          /\ (environ = "1" /\ blank) => (resp.status = 400 /\ ran = <<>>)
          /\ (environ = "1" /\ ~blank) =>
               (resp.status \in {200, 500} /\ ran = <<resp.cmd>>)
     /\ (req.path = "capabilities" /\ resp # NoResponse) =>
          (resp.runner_enabled <=> environ = "1")

C27_Witness ==
  /\ req.path = "run"
  /\ environ = Unset
  /\ req.cmd = <<"x">>
  /\ resp.status = 403
  /\ ran = <<>>

\* the call of run_shell_command behind the answer to a POST /api/run
ExecutorCalled == req.path = "run" /\ resp.proc # NoProcess

\* a stream as the result carries it: the bytes written, undecodable ones
\* replaced
Carried(text, bytes) ==
  IF bytes = "\\xff" THEN text = "U+FFFD" ELSE text = bytes

\* the result of a call whose shell process was started: the timeout result
\* when the process outlasts timeout_s, otherwise what the process gave
ResultOfStarted ==
  LET o == resp.proc
  IN /\ resp.status = 200
     /\ resp.cmd # <<>>
     /\ resp.timeout_s = (IF req.timeout_s <= 0 THEN 120 ELSE req.timeout_s)
     /\ o.takes > resp.timeout_s =>
          /\ resp.killed
          /\ resp.returncode = 124
          /\ resp.stdout = ""
          /\ resp.stderr = "Timed out"
     /\ o.takes <= resp.timeout_s =>
          /\ ~resp.killed
          /\ resp.returncode = o.rc
          /\ Carried(resp.stdout, o.out)
          /\ Carried(resp.stderr, o.err)

\* C31 as stated: every call of run_shell_command returns an ExecResult, the
\* timeout result (process killed, returncode 124, empty stdout, a timeout
\* message in stderr) when the command outlasts timeout_s, otherwise the
\* process's return code and captured streams.
C31_AlwaysReturnsResult == ExecutorCalled => ResultOfStarted

\* C31: a call of run_shell_command whose shell process could be started
\* returns an ExecResult, the timeout result (process killed, returncode 124,
\* empty stdout, a timeout message in stderr) when the command outlasts
\* timeout_s, otherwise the process's return code and its streams decoded
\* with replacement; a call whose process cannot be started returns nothing:
\* the exception reaches the caller, and api_run fails with it.
C31_ResultWhenStarted ==
  ExecutorCalled =>
    /\ resp.proc.spawn = "ok" => ResultOfStarted
    /\ resp.proc.spawn = "raise" => (resp.status = 500 /\ ~resp.killed)

C31_Witness ==
  /\ ExecutorCalled
  /\ req.timeout_s = 5
  /\ resp.proc.takes = 10
  /\ resp.proc.out = "o"
  /\ resp.killed
  /\ resp.returncode = 124
  /\ resp.stdout = ""

\* C32: two executions of run_shell_command started by the terminal UI never
\* overlap: at most one call of _run_from_input waits for the executor at
\* any time, however Run-button presses and input submissions interleave.
C32_AtMostOneRunning == Cardinality(Waiting("exec")) <= 1

\* C33: whenever _busy is True it is eventually reset to False, whether the
\* executor returns a result, times out or raises.
C33_BusyIsReset == _busy ~> ~_busy

C33_Witness ==
  /\ ~_busy
  /\ handlers = <<>>
  /\ cmd_log = [line |-> "Executor error", rc |-> 0]
  /\ cmd_in = <<>>

====
